---- MODULE Spec2Model ----
(***************************************************************************)
(* A model of the App component of src/src/App.jsx ("Lingo Mini"): the     *)
(* React state of the component, the event handlers the rendered buttons   *)
(* invoke, and the continuations of the fetches they start.                *)
(*                                                                         *)
(* Each useState cell is a variable of the same name.  A fetch that has    *)
(* been started and has not yet settled is an element of the bag reqs; it  *)
(* carries what the continuation's closure captured.  A continuation only  *)
(* writes state through the setters, so it runs whatever the component     *)
(* shows by then.  A handler can be invoked only through a control that is *)
(* rendered and not disabled: the guards below are the render conditions   *)
(* (step, current, result) and the disabled attributes of lines 192, 233.  *)
(* The "Loading..." overlay of lines 265-269 is a sibling element; it      *)
(* disables nothing, and the buttons under it stay reachable by keyboard,  *)
(* so it guards no action.                                                 *)
(***************************************************************************)
EXTENDS Integers, Sequences, FiniteSets, Bags, TLC

VARIABLES
  loading, courses, selectedCourse, lessons, selectedLesson, exercises,
  step, idx, answer, result, score,   \* the useState cells, lines 43-53
  reqs,                               \* fetches in flight
  ev, nCorrect                        \* history: the last event, and the correct
                                      \* responses applied since the last start

vars == <<loading, courses, selectedCourse, lessons, selectedLesson, exercises,
          step, idx, answer, result, score, reqs, ev, nCorrect>>

(***************************************************************************)
(* Bounds of the model.                                                    *)
(***************************************************************************)
\* fetches in flight at one time
MaxReqs == 2

\* lessons in one response of /api/courses/{id}/lessons, where the sort is
\* examined on its own
MaxLen == 4

(***************************************************************************)
(* Values.                                                                 *)
(***************************************************************************)
\* null for selectedCourse / selectedLesson (ids are positive)
NoId == 0

\* the award of line 127
XP == 10

\* result = null (line 52), and the two bodies /api/answer returns
NoResult == [isNull |-> TRUE, correct |-> FALSE, expected |-> ""]
CheckResult(c) == [isNull |-> FALSE, correct |-> c, expected |-> "a"]

\* what the service may return for /api/courses: nothing before seeding
CourseLists == {<<>>, <<1, 2>>}

\* order field of a lesson; MissingOrder stands for an absent field
MissingOrder == -1
LessonOrder(l) ==
  CASE l = 1 -> 2 [] l = 2 -> 1 [] l = 4 -> 1 [] l = 5 -> 0 [] l = 6 -> 3
    [] OTHER -> MissingOrder

\* what the service returns for /api/courses/{id}/lessons
BackendLessons(c) == IF c = 1 THEN <<1, 2>> ELSE <<3>>

\* (a.order||0)
OrderKey(l) == IF LessonOrder(l) = MissingOrder THEN 0 ELSE LessonOrder(l)

RECURSIVE InsertByOrderUnstable(_, _)
InsertByOrderUnstable(x, s) ==
  IF s = <<>> THEN <<x>>
  ELSE IF OrderKey(x) - OrderKey(Head(s)) <= 0 THEN <<x>> \o s
  ELSE <<Head(s)>> \o InsertByOrderUnstable(x, Tail(s))

\* one step of a stable insertion: x goes after every element whose key is
\* not larger than its own
RECURSIVE InsertByOrder(_, _)
InsertByOrder(x, s) ==
  IF s = <<>> THEN <<x>>
  ELSE IF OrderKey(x) - OrderKey(Head(s)) < 0 THEN <<x>> \o s
  ELSE <<Head(s)>> \o InsertByOrder(x, Tail(s))

\* data.sort((a,b) => (a.order||0) - (b.order||0)): Array.prototype.sort is
\* stable
RECURSIVE SortByOrder(_)
SortByOrder(s) ==
  IF s = <<>> THEN <<>>
  ELSE InsertByOrder(s[Len(s)], SortByOrder(SubSeq(s, 1, Len(s) - 1)))

\* exercise types: free text, multiple choice, multiple choice without options
ExTypes == {"text", "mcq", "mcq0"}

\* (current.options || [])
Options(t) == IF t = "mcq" THEN {"a", "b"} ELSE {}

\* what the service may return for /api/lessons/{id}/exercises
ExerciseLists == {<<>>, <<"mcq0">>, <<"text">>, <<"text", "mcq">>}

\* what the user may type into the input of line 224
Typed == {"", "a"}

(***************************************************************************)
(* Fetches in flight.  k is the endpoint, a the id in the URL or body, ans *)
(* the answer in the body, sd whether the fetch runs inside seedDemo's try *)
(* block (whose finally then clears loading).  left and fresh are history: *)
(* whether the user has left the session since an exercises or answer      *)
(* fetch started (exit, back to course, another startLesson), and whether  *)
(* no event has happened since a lessons, exercises or answer fetch        *)
(* started.                                                                *)
(***************************************************************************)
Req(k, a, ans, sd) ==
  [k |-> k, a |-> a, ans |-> ans, sd |-> sd,
   left |-> FALSE, fresh |-> k \in {"lessons", "exercises", "answer"}]

NoReq == [k |-> "none", a |-> NoId, ans |-> "", sd |-> FALSE,
          left |-> FALSE, fresh |-> FALSE]

Pending(k) == {r \in BagToSet(reqs) : r.k = k}

One(r) == SetToBag({r})

\* The user leaves the session for Home (lesson = NoId) or by starting
\* lesson: that leaves behind every check in flight and every exercises fetch
\* of another lesson.
Superseded(r, lesson) ==
  \/ r.k = "answer"
  \/ r.k = "exercises" /\ r.a # lesson

\* the fetches already in flight stay in flight across an event
Stay(b) == BagOfAll(LAMBDA r : [r EXCEPT !.fresh = FALSE], b)

LeaveFor(b, lesson) ==
  BagOfAll(LAMBDA r : [r EXCEPT !.fresh = FALSE,
                                !.left = @ \/ Superseded(r, lesson)], b)

CanIssue == BagCardinality(reqs) < MaxReqs

\* the handler or continuation that ran last: the fetch it started or settled,
\* the body of the response (correct of /api/answer, the list of
\* /api/lessons/{id}/exercises), and score, selectedLesson, step and lessons
\* before it ran
EventData(op, r, correct, list) ==
  ev' = [op |-> op, r |-> r, correct |-> correct, list |-> list,
         sc |-> score, was |-> selectedLesson, from |-> step, ls |-> lessons]

Event(op, r) == EventData(op, r, FALSE, <<>>)

Range(s) == {s[i] : i \in 1..Len(s)}

\* const current = exercises[idx] (line 201); Play renders only if it is defined
HasCurrent == idx + 1 \in 1..Len(exercises)
Current == exercises[idx + 1]

(***************************************************************************)
(* Initial state: the useState defaults, and the loadCourses() of the      *)
(* mount effect (line 55) already awaiting its fetch.                      *)
(***************************************************************************)
Init ==
  /\ loading = FALSE
  /\ courses = <<>>
  /\ selectedCourse = NoId
  /\ lessons = <<>>
  /\ selectedLesson = NoId
  /\ exercises = <<>>
  /\ step = "home"
  /\ idx = 0
  /\ answer = ""
  /\ result = NoResult
  /\ score = 0
  /\ reqs = One(Req("courses", NoId, "", FALSE))
  /\ ev = [op |-> "mount", r |-> NoReq, correct |-> FALSE, list |-> <<>>,
           sc |-> 0, was |-> NoId, from |-> "home", ls |-> <<>>]
  /\ nCorrect = 0

(***************************************************************************)
(* loadCourses, lines 69-81: the settling of its fetch.                    *)
(***************************************************************************)
\* the three setters loadLessons runs before its fetch (lines 84-86)
LoadLessonsClears ==
  /\ lessons' = <<>>
  /\ selectedLesson' = NoId
  /\ exercises' = <<>>

\* seedDemo's finally (line 65) runs once the fetches awaited in its try are over
SeedDone(r) == IF r.sd THEN loading' = FALSE ELSE UNCHANGED loading

CoursesOk(r, data) ==
  /\ r \in Pending("courses")
  /\ courses' = data
  /\ IF Len(data) > 0
       THEN /\ selectedCourse' = data[1]
            /\ LoadLessonsClears
            /\ reqs' = Stay(reqs (-) One(r))
                         (+) One(Req("lessons", data[1], "", r.sd))
            /\ UNCHANGED loading
       ELSE /\ reqs' = Stay(reqs (-) One(r))
            /\ SeedDone(r)
            /\ UNCHANGED <<selectedCourse, lessons, selectedLesson, exercises>>
  /\ UNCHANGED <<step, idx, answer, result, score, nCorrect>>
  /\ Event("coursesOk", r)

CoursesFail(r) ==
  /\ r \in Pending("courses")
  /\ reqs' = Stay(reqs (-) One(r))
  /\ SeedDone(r)
  /\ UNCHANGED <<courses, selectedCourse, lessons, selectedLesson, exercises,
                 step, idx, answer, result, score, nCorrect>>
  /\ Event("coursesFail", r)

(***************************************************************************)
(* loadLessons, lines 83-94: the settling of its fetch.                    *)
(***************************************************************************)
LessonsOk(r) ==
  /\ r \in Pending("lessons")
  /\ lessons' = SortByOrder(BackendLessons(r.a))
  /\ reqs' = Stay(reqs (-) One(r))
  /\ SeedDone(r)
  /\ UNCHANGED <<courses, selectedCourse, selectedLesson, exercises,
                 step, idx, answer, result, score, nCorrect>>
  /\ Event("lessonsOk", r)

LessonsFail(r) ==
  /\ r \in Pending("lessons")
  /\ reqs' = Stay(reqs (-) One(r))
  /\ SeedDone(r)
  /\ UNCHANGED <<courses, selectedCourse, lessons, selectedLesson, exercises,
                 step, idx, answer, result, score, nCorrect>>
  /\ Event("lessonsFail", r)

(***************************************************************************)
(* The Home screen, lines 156-199.                                         *)
(***************************************************************************)
\* "Seed demo", line 160: seedDemo up to its first await (lines 58-60)
SeedDemo ==
  /\ step = "home"
  /\ CanIssue
  /\ loading' = TRUE
  /\ reqs' = Stay(reqs) (+) One(Req("seed", NoId, "", TRUE))
  /\ UNCHANGED <<courses, selectedCourse, lessons, selectedLesson, exercises,
                 step, idx, answer, result, score, nCorrect>>
  /\ Event("seedDemo", NoReq)

\* line 61: the seed fetch is over, loadCourses starts its own
SeedOk(r) ==
  /\ r \in Pending("seed")
  /\ reqs' = Stay(reqs (-) One(r))
               (+) One(Req("courses", NoId, "", TRUE))
  /\ UNCHANGED <<loading, courses, selectedCourse, lessons, selectedLesson,
                 exercises, step, idx, answer, result, score, nCorrect>>
  /\ Event("seedOk", r)

\* lines 62-65
SeedFail(r) ==
  /\ r \in Pending("seed")
  /\ reqs' = Stay(reqs (-) One(r))
  /\ loading' = FALSE
  /\ UNCHANGED <<courses, selectedCourse, lessons, selectedLesson,
                 exercises, step, idx, answer, result, score, nCorrect>>
  /\ Event("seedFail", r)

\* a course button, line 171: setSelectedCourse(c); loadLessons(c)
SelectCourse(c) ==
  /\ step = "home"
  /\ c \in Range(courses)
  /\ CanIssue
  /\ selectedCourse' = c
  /\ LoadLessonsClears
  /\ reqs' = Stay(reqs) (+) One(Req("lessons", c, "", FALSE))
  /\ UNCHANGED <<loading, courses, step, idx, answer, result, score, nCorrect>>
  /\ Event("selectCourse", NoReq)

(***************************************************************************)
(* startLesson, lines 96-113.                                              *)
(***************************************************************************)
\* up to the await of line 100.  With lesson = null, lesson.id throws inside
\* the try: the catch logs and the finally clears loading, all in one turn.
StartLesson(lesson, op) ==
  /\ selectedLesson' = lesson
  /\ IF lesson = NoId
       THEN /\ loading' = FALSE
            /\ reqs' = Stay(reqs)
       ELSE /\ CanIssue
            /\ loading' = TRUE
            /\ reqs' = LeaveFor(reqs, lesson)
                         (+) One(Req("exercises", lesson, "", FALSE))
  /\ UNCHANGED <<courses, selectedCourse, lessons, exercises,
                 step, idx, answer, result, score, nCorrect>>
  /\ Event(op, IF lesson = NoId THEN NoReq ELSE Req("exercises", lesson, "", FALSE))

\* a click that reaches no handler: the button is disabled
Ignored(op) ==
  /\ UNCHANGED <<loading, courses, selectedCourse, lessons, selectedLesson,
                 exercises, step, idx, answer, result, score, reqs, nCorrect>>
  /\ Event(op, NoReq)

\* disabled={loading}, line 192
StartDisabled == loading

\* "Start", line 192 (rendered under selectedCourse &&, line 179)
ClickStart(ls) ==
  /\ step = "home"
  /\ selectedCourse # NoId
  /\ ls \in Range(lessons)
  /\ IF StartDisabled THEN Ignored("startIgnored") ELSE StartLesson(ls, "startLesson")

\* "Retry lesson", line 254
ClickRetry ==
  /\ step = "result"
  /\ StartLesson(selectedLesson, "retry")

StepAfterFetchSkipsEmpty(data) == IF data = <<>> THEN "result" ELSE "play"

\* the step the try block ends on, line 107
StepAfterFetch(data) == "play"

ExercisesOkKeepsScore(r, data) ==
  /\ r \in Pending("exercises")
  /\ data \in ExerciseLists
  /\ exercises' = data
  /\ idx' = 0
  /\ answer' = ""
  /\ result' = NoResult
  /\ step' = StepAfterFetch(data)
  /\ loading' = FALSE
  /\ reqs' = Stay(reqs (-) One(r))
  /\ UNCHANGED <<courses, selectedCourse, lessons, selectedLesson, score, nCorrect>>
  /\ EventData("exercisesOk", r, FALSE, data)

\* lines 101-107 and 111
ExercisesOk(r, data) ==
  /\ r \in Pending("exercises")
  /\ data \in ExerciseLists
  /\ exercises' = data
  /\ idx' = 0
  /\ score' = 0
  /\ answer' = ""
  /\ result' = NoResult
  /\ step' = StepAfterFetch(data)
  /\ loading' = FALSE
  /\ reqs' = Stay(reqs (-) One(r))
  /\ nCorrect' = 0
  /\ UNCHANGED <<courses, selectedCourse, lessons, selectedLesson>>
  /\ EventData("exercisesOk", r, FALSE, data)

\* lines 108-111
ExercisesFail(r) ==
  /\ r \in Pending("exercises")
  /\ loading' = FALSE
  /\ reqs' = Stay(reqs (-) One(r))
  /\ UNCHANGED <<courses, selectedCourse, lessons, selectedLesson, exercises,
                 step, idx, answer, result, score, nCorrect>>
  /\ Event("exercisesFail", r)

(***************************************************************************)
(* The Play screen, lines 201-246.                                         *)
(***************************************************************************)
PlayShown == step = "play" /\ HasCurrent

\* an option button (line 220) or the text input (line 228)
SetAnswer(v) ==
  /\ PlayShown
  /\ IF Current \in {"mcq", "mcq0"} THEN v \in Options(Current) ELSE v \in Typed
  /\ v # answer
  /\ answer' = v
  /\ reqs' = Stay(reqs)
  /\ UNCHANGED <<loading, courses, selectedCourse, lessons, selectedLesson,
                 exercises, step, idx, result, score, nCorrect>>
  /\ Event("setAnswer", NoReq)

CheckDisabledWhileLoading == loading

\* disabled={loading || !answer}, line 233
CheckDisabled == loading \/ answer = ""

\* submitCurrent up to its await, lines 116-124
SubmitCurrent ==
  /\ HasCurrent
  /\ CanIssue
  /\ loading' = TRUE
  /\ reqs' = Stay(reqs) (+) One(Req("answer", idx, answer, FALSE))
  /\ UNCHANGED <<courses, selectedCourse, lessons, selectedLesson, exercises,
                 step, idx, answer, result, score, nCorrect>>
  /\ Event("submitCurrent", Req("answer", idx, answer, FALSE))

\* "Check", line 233: rendered while !result
ClickCheck ==
  /\ PlayShown
  /\ result.isNull
  /\ IF CheckDisabled THEN Ignored("checkIgnored") ELSE SubmitCurrent

AwardedAlways(correct) == score + XP

AwardedWithPenalty(correct) == IF correct THEN score + XP ELSE score - XP

\* if (data.correct) setScore(s => s + 10), line 127
Awarded(correct) == IF correct THEN score + XP ELSE score

\* lines 125-127 and 131
AnswerOk(r, correct) ==
  /\ r \in Pending("answer")
  /\ result' = CheckResult(correct)
  /\ score' = Awarded(correct)
  /\ nCorrect' = IF correct THEN nCorrect + 1 ELSE nCorrect
  /\ loading' = FALSE
  /\ reqs' = Stay(reqs (-) One(r))
  /\ UNCHANGED <<courses, selectedCourse, lessons, selectedLesson, exercises,
                 step, idx, answer>>
  /\ EventData("answerOk", r, correct, <<>>)

AnswerFailClearsDraft(r) ==
  /\ r \in Pending("answer")
  /\ loading' = FALSE
  /\ answer' = ""
  /\ reqs' = Stay(reqs (-) One(r))
  /\ UNCHANGED <<courses, selectedCourse, lessons, selectedLesson, exercises,
                 step, idx, result, score, nCorrect>>
  /\ Event("answerFail", r)

\* lines 128-131
AnswerFail(r) ==
  /\ r \in Pending("answer")
  /\ loading' = FALSE
  /\ reqs' = Stay(reqs (-) One(r))
  /\ UNCHANGED <<courses, selectedCourse, lessons, selectedLesson, exercises,
                 step, idx, answer, result, score, nCorrect>>
  /\ Event("answerFail", r)

NextIdxSkips == idx + 2

\* const nextIdx = idx + 1, line 136
NextIdx == idx + 1

ListExhaustedOffByOne == NextIdx > Len(exercises)

\* if (nextIdx >= exercises.length), line 137
ListExhausted == NextIdx >= Len(exercises)

\* the else branch of next, lines 140-142
Advance ==
  /\ idx' = NextIdx
  /\ answer' = ""
  /\ result' = NoResult
  /\ UNCHANGED step

\* "Next", line 241: rendered while result is set; next, lines 135-144
ClickNext ==
  /\ PlayShown
  /\ ~result.isNull
  /\ IF ListExhausted
       THEN step' = "result" /\ UNCHANGED <<idx, answer, result>>
       ELSE Advance
  /\ reqs' = Stay(reqs)
  /\ UNCHANGED <<loading, courses, selectedCourse, lessons, selectedLesson,
                 exercises, score, nCorrect>>
  /\ Event("next", NoReq)

(***************************************************************************)
(* resetToHome, lines 146-153.                                             *)
(***************************************************************************)
ResetToHomeKeepsLesson(op) ==
  /\ step' = "home"
  /\ exercises' = <<>>
  /\ idx' = 0
  /\ answer' = ""
  /\ result' = NoResult
  /\ reqs' = LeaveFor(reqs, NoId)
  /\ UNCHANGED <<loading, courses, selectedCourse, lessons, selectedLesson,
                 score, nCorrect>>
  /\ Event(op, NoReq)

ResetToHome(op) ==
  /\ step' = "home"
  /\ selectedLesson' = NoId
  /\ exercises' = <<>>
  /\ idx' = 0
  /\ answer' = ""
  /\ result' = NoResult
  /\ reqs' = LeaveFor(reqs, NoId)
  /\ UNCHANGED <<loading, courses, selectedCourse, lessons, score, nCorrect>>
  /\ Event(op, NoReq)

\* "Exit lesson", line 244
ClickExit == PlayShown /\ ResetToHome("exit")

\* "Back to course", line 255
ClickBack == step = "result" /\ ResetToHome("back")

(***************************************************************************)
(* The component.                                                          *)
(***************************************************************************)
Next ==
  \/ \E r \in BagToSet(reqs), data \in CourseLists : CoursesOk(r, data)
  \/ \E r \in BagToSet(reqs) : CoursesFail(r)
  \/ \E r \in BagToSet(reqs) : LessonsOk(r)
  \/ \E r \in BagToSet(reqs) : LessonsFail(r)
  \/ SeedDemo
  \/ \E r \in BagToSet(reqs) : SeedOk(r)
  \/ \E r \in BagToSet(reqs) : SeedFail(r)
  \/ \E c \in Range(courses) : SelectCourse(c)
  \/ \E ls \in Range(lessons) : ClickStart(ls)
  \/ ClickRetry
  \/ \E r \in BagToSet(reqs), data \in ExerciseLists : ExercisesOk(r, data)
  \/ \E r \in BagToSet(reqs) : ExercisesFail(r)
  \/ \E v \in Typed \cup UNION {Options(t) : t \in ExTypes} : SetAnswer(v)
  \/ ClickCheck
  \/ \E r \in BagToSet(reqs), c \in BOOLEAN : AnswerOk(r, c)
  \/ \E r \in BagToSet(reqs) : AnswerFail(r)
  \/ ClickNext
  \/ ClickExit
  \/ ClickBack

Spec == Init /\ [][Next]_vars

(***************************************************************************)
(* The sort of loadLessons on its own: the component on Home with course 1 *)
(* selected, the service holding any list of up to MaxLen lessons (ev.list *)
(* is that list), and loadLessons(course) called again and again with its  *)
(* fetch succeeding.                                                       *)
(***************************************************************************)
LessonIds == {1, 2, 3, 4, 5, 6}

FetchedLists == UNION {[1..n -> LessonIds] : n \in 0..MaxLen}

SortInit ==
  /\ loading = FALSE
  /\ courses = <<1, 2>>
  /\ selectedCourse = 1
  /\ lessons = <<>>
  /\ selectedLesson = NoId
  /\ exercises = <<>>
  /\ step = "home"
  /\ idx = 0
  /\ answer = ""
  /\ result = NoResult
  /\ score = 0
  /\ reqs = EmptyBag
  /\ \E data \in FetchedLists :
       ev = [op |-> "mount", r |-> NoReq, correct |-> FALSE, list |-> data,
             sc |-> 0, was |-> NoId, from |-> "home", ls |-> <<>>]
  /\ nCorrect = 0

\* lines 83-90, the fetch answered with ev.list
LoadLessons ==
  /\ selectedLesson' = NoId
  /\ exercises' = <<>>
  /\ lessons' = SortByOrder(ev.list)
  /\ UNCHANGED <<loading, courses, selectedCourse, step, idx, answer, result,
                 score, reqs, nCorrect>>
  /\ EventData(IF ev.op = "mount" THEN "loadLessons" ELSE "loadLessonsAgain",
               NoReq, FALSE, ev.list)

SortNext == LoadLessons

SortSpec == SortInit /\ [][SortNext]_vars

(***************************************************************************)
(* Properties.  In a state predicate ev is the handler or continuation     *)
(* that produced the state and ev.sc the score before it ran; in an action *)
(* formula ev' is the one the step runs and the unprimed variables are the *)
(* state before it.                                                        *)
(***************************************************************************)
Ran(op) == ev'.op = op

\* the cells of one lesson attempt
session == <<step, exercises, idx, answer, result, score>>

\* C1: a checkAnswer response becomes result and adds exactly 10 to score if
\* it is correct and nothing if it is not; so score is always 10 times the
\* number of correct responses applied since the attempt started, on the
\* result screen too.
C1_AnswerScored ==
  /\ ev.op = "answerOk" =>
       /\ result = CheckResult(ev.correct)
       /\ score = IF ev.correct THEN ev.sc + 10 ELSE ev.sc
  /\ score = 10 * nCorrect

\* a run through two exercises, one answered correctly and the last one not
C1_Witness ==
  /\ step = "result"
  /\ Len(exercises) = 2
  /\ idx = 1
  /\ result = CheckResult(FALSE)
  /\ nCorrect = 1
  /\ score = 10

\* checks of the shown exercise that are in flight and were started since the
\* user last left a session
LiveChecks == {r \in Pending("answer") : ~r.left}

\* C2: no submission is scored twice: at most one check is in flight for a
\* submission (a Check while one is pending starts none), and the score of an
\* attempt is at most 10 per exercise position reached.
C2_NoDoubleScoring ==
  /\ \A r \in LiveChecks : CopiesIn(r, reqs) = 1
  /\ Cardinality(LiveChecks) <= 1
  /\ step \in {"play", "result"} => score <= 10 * (idx + 1)

\* C3: the response to an exercises or answer fetch that was in flight when
\* the user left the session (exit, back to course, another startLesson)
\* changes none of step, exercises, idx, answer, result, score.
C3_StaleDiscarded ==
  [][(ev'.op \in {"exercisesOk", "exercisesFail", "answerOk", "answerFail"}
        /\ ev'.r.left)
      => UNCHANGED session]_vars

\* C4: score decreases only when a lesson attempt starts (the exercises fetch
\* of startLesson succeeds), and then to 0; exit, back, next, setAnswer, course
\* selection, ignored clicks and failed fetches leave it as it is.
C4_ScoreMonotone ==
  /\ score < ev.sc => ev.op = "exercisesOk" /\ score = 0
  /\ ev.op \in {"exit", "back", "next", "setAnswer", "selectCourse",
                "startLesson", "retry", "startIgnored", "checkIgnored",
                "submitCurrent", "seedDemo", "seedOk", "seedFail",
                "coursesOk", "coursesFail", "lessonsOk", "lessonsFail",
                "exercisesFail", "answerFail"}
       => score = ev.sc

\* a start that took the score from 20 back to 0
C4_Witness ==
  /\ ev.op = "exercisesOk"
  /\ ev.sc = 20
  /\ score = 0

\* C5: a start whose fetch returns no exercise ends on the result screen
\* with score 0 and idx 0, and the play screen never has an empty list.
C5_EmptyLessonCompleted ==
  /\ (ev.op = "exercisesOk" /\ ev.list = <<>>)
        => step = "result" /\ score = 0 /\ idx = 0
  /\ ~(step = "play" /\ exercises = <<>>)

\* C6: when the exercises fetch of startLesson fails straight after the
\* start, loading is false and step, selectedLesson, exercises, idx, answer,
\* result and score are what they were before startLesson was invoked (the
\* start itself changes only selectedLesson and loading).
C6_FailedStartRestores ==
  [][/\ ev'.op \in {"startLesson", "retry"} => UNCHANGED session
     /\ (Ran("exercisesFail") /\ ev'.r.fresh) =>
          /\ loading' = FALSE
          /\ selectedLesson' = ev.was    \* ev is the start: the lesson before it
          /\ UNCHANGED session]_vars

\* every cell of the component, and the fetches in flight
cells == <<loading, courses, selectedCourse, lessons, selectedLesson,
           exercises, step, idx, answer, result, score, reqs>>

\* C7: a Check while answer is empty starts no fetch and changes no cell.
C7_EmptySubmitNoOp ==
  [][(ev'.op \in {"checkIgnored", "submitCurrent"} /\ answer = "")
       => UNCHANGED cells]_vars

\* Check pressed on an exercise without options, nothing else pending
C7_Witness ==
  /\ ev.op = "checkIgnored"
  /\ PlayShown
  /\ Current = "mcq0"
  /\ answer = ""
  /\ ~loading
  /\ reqs = EmptyBag

\* C8: a failed check clears loading and leaves step, exercises, idx, answer,
\* result and score alone; when nothing happened since the submit, that is
\* the play screen on the submitted exercise with result null and the
\* submitted draft, where Check is enabled again.
C8_FailedCheckKeepsDraft ==
  [][Ran("answerFail") =>
       /\ loading' = FALSE
       /\ UNCHANGED session
       /\ ev'.r.fresh =>
            /\ step' = "play"
            /\ idx' = ev'.r.a
            /\ answer' = ev'.r.ans
            /\ result'.isNull
            /\ score' = ev.sc      \* ev is the submit: the score before it
            /\ ~CheckDisabled']_vars

\* a check that failed straight after the submit
C8_Witness ==
  /\ ev.op = "answerFail"
  /\ ev.r.fresh
  /\ PlayShown
  /\ answer = "a"
  /\ result.isNull
  /\ ~loading

\* C9: next moves idx up by exactly one and stays on play, or, on the last
\* exercise, goes to the result screen; idx changes in no other way than by
\* such a step or by going back to 0, and next leaves score alone.
C9_NextAdvancesByOne ==
  [][/\ Ran("next") =>
          /\ IF idx + 1 < Len(exercises)
               THEN idx' = idx + 1 /\ step' = "play"
               ELSE idx' = idx /\ step' = "result"
          /\ score' = score
          /\ exercises' = exercises
     /\ idx' # idx => \/ Ran("next") /\ idx' = idx + 1 /\ idx' < Len(exercises)
                      \/ idx' = 0]_vars

\* next on the first of two exercises
C9_Witness ==
  /\ ev.op = "next"
  /\ step = "play"
  /\ Len(exercises) = 2
  /\ idx = 1
  /\ result.isNull

C11_IndexInBounds ==
  (step = "play" /\ exercises # <<>>) => (0 <= idx /\ idx < Len(exercises))

\* the last position of a list of two, reached by next
C11_Witness ==
  /\ step = "play"
  /\ Len(exercises) = 2
  /\ idx = 1
  /\ ev.op = "next"

\* C12: step starts at home, and it changes only along five edges: home to
\* play (an exercises fetch succeeds), play to result (next on the last
\* exercise), play to home (exit), result to play (an exercises fetch
\* succeeds), result to home (back).
C12_ScreenEdges ==
  /\ ev.op = "mount" => step = "home"
  /\ step # ev.from =>
       <<ev.from, step, ev.op>> \in
          {<<"home", "play", "exercisesOk">>,
           <<"play", "result", "next">>,
           <<"play", "home", "exit">>,
           <<"result", "play", "exercisesOk">>,
           <<"result", "home", "back">>}

\* the retry edge: from the result screen back to play
C12_Witness ==
  /\ ev.from = "result"
  /\ step = "play"
  /\ ev.op = "exercisesOk"
  /\ ev.list # <<>>

\* C13: loading is true whenever a fetch is in flight (so the settling of
\* one fetch never clears it while another is in flight).
C13_BusyWhileOutstanding ==
  reqs # EmptyBag => loading

\* C14: at most one exercises fetch is in flight at any time (a start or
\* retry while one is in flight starts none).
C14_OneExerciseFetch ==
  /\ \A r \in Pending("exercises") : CopiesIn(r, reqs) = 1
  /\ Cardinality(Pending("exercises")) <= 1

\* C15: a listLessons fetch that fails leaves the lesson list and
\* selectedLesson as they were before loadLessons was called.  (The fetch is
\* fresh when nothing else happened between the call and the failure, so
\* that the unprimed ev is the handler that called loadLessons.)
C15_FailedLoadRestores ==
  [][Ran("lessonsFail") /\ ev'.r.fresh =>
        /\ lessons' = ev.ls
        /\ selectedLesson' = ev.was]_vars

\* C16: when the exercises fetch of a startLesson succeeds, a retry's
\* included, exercises is the fetched list, score and idx are 0, answer is
\* empty and result is null; a retry fetches for the lesson that was selected,
\* and that lesson is still the selected one if nothing happened in between.
C16_RetryResets ==
  /\ ev.op = "retry" /\ ev.r.k = "exercises" => ev.r.a = ev.was
  /\ ev.op = "exercisesOk" =>
       /\ exercises = ev.list
       /\ score = 0
       /\ idx = 0
       /\ answer = ""
       /\ result.isNull
       /\ step = "play"
       /\ ev.r.fresh => selectedLesson = ev.r.a

\* a retry from the result screen of a run that ended with score 20 succeeds
C16_Witness ==
  /\ ev.op = "exercisesOk"
  /\ ev.from = "result"
  /\ ev.r.fresh
  /\ ev.sc = 20
  /\ ev.list # <<>>
  /\ score = 0
  /\ selectedLesson # NoId

\* C17: exit and back to course go to home with exercises empty,
\* selectedLesson null, idx 0, answer empty and result null, and leave
\* courses, selectedCourse and lessons as they were.
C17_ExitResets ==
  [][Ran("exit") \/ Ran("back") =>
        /\ step' = "home"
        /\ exercises' = <<>>
        /\ selectedLesson' = NoId
        /\ idx' = 0
        /\ answer' = ""
        /\ result'.isNull
        /\ UNCHANGED <<courses, selectedCourse, lessons>>]_vars

\* exit in the middle of a lesson, after one correct answer, with lessons listed
C17_Witness ==
  /\ ev.op = "exit"
  /\ ev.from = "play"
  /\ ev.was # NoId
  /\ ev.sc = 10
  /\ step = "home"
  /\ selectedLesson = NoId
  /\ lessons # <<>>

\* out holds the elements of in, in ascending order of OrderKey, those of
\* one key in the order they have in in
StableSorted(out, in) ==
  /\ Len(out) = Len(in)
  /\ \A i \in 1..(Len(out) - 1) : OrderKey(out[i]) <= OrderKey(out[i + 1])
  /\ \A k \in {OrderKey(l) : l \in LessonIds} :
       LET HasKey(l) == OrderKey(l) = k
       IN  SelectSeq(out, HasKey) = SelectSeq(in, HasKey)

\* C18: after loadLessons succeeds lessons is the fetched list in ascending
\* order of order (absent = 0), lessons of equal order in the order of the
\* response; a second call with the same list fetched gives the same lessons.
C18_StableSort ==
  /\ ev.op \in {"loadLessons", "loadLessonsAgain"} =>
       StableSorted(lessons, ev.list)
  /\ ev.op = "loadLessonsAgain" => lessons = ev.ls

\* orders 2, 1, 1, 3: the two lessons of order 1 stay as fetched
C18_Witness ==
  /\ ev.op = "loadLessonsAgain"
  /\ ev.list = <<1, 2, 4, 6>>
  /\ lessons = <<2, 4, 1, 6>>

\* C19: once no lessons fetch is in flight, lessons is the list of the
\* selected course (or empty, if its fetch failed), never the list of a
\* course selected before.
C19_LessonsOfSelectedCourse ==
  (Pending("lessons") = {} /\ selectedCourse # NoId) =>
     lessons \in {<<>>, SortByOrder(BackendLessons(selectedCourse))}

\* C20: on the play and result screens selectedLesson is not null.
C20_LessonSelected ==
  step \in {"play", "result"} => selectedLesson # NoId

====
